---- MODULE Spec2Model ----
(***************************************************************************)
(* OneHotEncoderDF (brenda_utils/one_hot_encoder.py): a one-hot encoder    *)
(* over data frames.  The model keeps the instance's configuration and the *)
(* wrapped encoder's fitted categories, and records the last call with its *)
(* argument and its outcome; refitted is a history variable, true once a   *)
(* fit has succeeded on an instance that was fitted already.  Cells of the *)
(* input frames are strings (the only category values prefix_sep.join      *)
(* accepts), none of them missing.                                         *)
(***************************************************************************)
EXTENDS Integers, Sequences, FiniteSets, TLC

VARIABLES inst, columns, prefix, prefix_sep, drop_first,
          fitted, categories_, call, refitted

vars == <<inst, columns, prefix, prefix_sep, drop_first,
          fitted, categories_, call, refitted>>

\* ------------------------------------------------------------------ bounds
\* most rows of a frame given to transform
MaxRows == 2

\* ------------------------------------------------------------------ inputs
\* Cell values, and the order the encoder sorts them in (lexicographic).
ValueOrder == <<"a", "b", "c">>
Values == {ValueOrder[i] : i \in 1..Len(ValueOrder)}

\* Rows the frames are built from, as u/v/x cells.
RowPool == { [u |-> "a", v |-> "b", x |-> "c"],
             [u |-> "b", v |-> "c", x |-> "a"],
             [u |-> "c", v |-> "b", x |-> "b"] }

\* Column layouts of the frames given to fit and transform.
FrameColumns == { <<"u", "x", "v">>, <<"x", "v">> }

MkFrame(cols, rs) ==
    [columns |-> cols,
     rows |-> [r \in 1..Len(rs) |-> [p \in 1..Len(cols) |-> rs[r][cols[p]]]]]

FramesUpTo(n) ==
    { MkFrame(cols, rs) :
        cols \in FrameColumns,
        rs \in UNION { [1..m -> RowPool] : m \in 0..n } }

\* frames given to transform
Frames == FramesUpTo(MaxRows)

\* frames given to fit: up to one row per row of the pool, which is enough for
\* a column to show every value of the pool, in any order of appearance
FitFrames == FramesUpTo(Cardinality(RowPool))

\* Constructor arguments.
ColumnsArgs == { <<"u">>, <<"v", "u">> }
PrefixArgs == { [kind |-> "None", str |-> "", list |-> <<>>],
                [kind |-> "str", str |-> "p", list |-> <<>>],
                [kind |-> "list", str |-> "", list |-> <<"q">>],
                [kind |-> "list", str |-> "", list |-> <<"p", "q">>] }
SepArgs == { "_", "-" }

\* ------------------------------------------------------------ data frames
\* A frame is its column labels and its rows of cells.  A frame that transform
\* builds also carries, per column, its origin: 0 for a column taken from the
\* input, j for the j-th column of the encoder's array; its cells are tagged
\* with their dtype.
NoFrame == [columns |-> <<>>, rows |-> <<>>]
NoOut == [columns |-> <<>>, rows |-> <<>>, origin |-> <<>>]

Object(s) == [dtype |-> "object", s |-> s, n |-> 0]
Int8(n) == [dtype |-> "int8", s |-> "", n |-> n]

Range(s) == { s[i] : i \in 1..Len(s) }

\* `column in x.columns`
HasColumn(x, c) == c \in Range(x.columns)

PosOf(x, c) == CHOOSE p \in 1..Len(x.columns) : x.columns[p] = c

\* x[column]: the cells of one column, in row order
Series(x, c) == [r \in 1..Len(x.rows) |-> x.rows[r][PosOf(x, c)]]

\* (mutant of nunique: counts the cells instead of the distinct values)
nunique_Count(x, c) == Len(Series(x, c))

\* x[column].nunique()
nunique(x, c) == Cardinality(Range(Series(x, c)))

\* positions of the columns that DataFrame.drop(columns=labels) keeps: every
\* column whose label is among `labels` goes, however often it occurs
KeptPositions(names, labels) ==
    SelectSeq([p \in 1..Len(names) |-> p], LAMBDA p : names[p] \notin labels)

\* DataFrame.drop(columns=labels)
DropColumns(x, labels) ==
    LET keep == KeptPositions(x.columns, labels)
    IN [columns |-> [p \in 1..Len(keep) |-> x.columns[keep[p]]],
        rows |-> [r \in 1..Len(x.rows) |->
                     [p \in 1..Len(keep) |-> x.rows[r][keep[p]]]],
        origin |-> [p \in 1..Len(keep) |-> x.origin[keep[p]]]]

\* (mutant of Concat: the frames are joined in the other order)
Concat_Swapped(a, b) ==
    [columns |-> b.columns \o a.columns,
     rows |-> [r \in 1..Len(a.rows) |-> b.rows[r] \o a.rows[r]],
     origin |-> b.origin \o a.origin]

\* pd.concat((a, b), axis=1) of two frames over the same rows
Concat(a, b) ==
    [columns |-> a.columns \o b.columns,
     rows |-> [r \in 1..Len(a.rows) |-> a.rows[r] \o b.rows[r]],
     origin |-> a.origin \o b.origin]

RECURSIVE Flatten(_)
Flatten(ss) == IF ss = <<>> THEN <<>> ELSE Head(ss) \o Flatten(Tail(ss))

\* ---------------------------------------------------- the wrapped encoder
\* (mutant of EncoderFit: a fitted encoder adds the new values to the
\* categories it has, as a partial fit would)
EncoderFit_Accumulate(x, cols) ==
    [i \in 1..Len(cols) |->
        SelectSeq(ValueOrder,
                  LAMBDA v : \/ v \in Range(Series(x, cols[i]))
                             \/ fitted /\ v \in Range(categories_[i]))]

\* OneHotEncoder.fit: per column, the sorted distinct values
EncoderFit(x, cols) ==
    [i \in 1..Len(cols) |->
        SelectSeq(ValueOrder, LAMBDA v : v \in Range(Series(x, cols[i])))]

\* (mutant of EncoderTransform: an unknown value is encoded as the first
\* category)
EncoderTransform_UnknownFirst(cats, x, cols) ==
    [r \in 1..Len(x.rows) |->
        Flatten([i \in 1..Len(cols) |->
            [k \in 1..Len(cats[i]) |->
                LET v == x.rows[r][PosOf(x, cols[i])] IN
                IF v = cats[i][k] \/ (k = 1 /\ v \notin Range(cats[i]))
                THEN 1 ELSE 0]])]

\* OneHotEncoder(handle_unknown="ignore").transform(...).toarray(): one row
\* per input row, one 0/1 cell per fitted category, an unknown value all 0
EncoderTransform(cats, x, cols) ==
    [r \in 1..Len(x.rows) |->
        Flatten([i \in 1..Len(cols) |->
            [k \in 1..Len(cats[i]) |->
                IF x.rows[r][PosOf(x, cols[i])] = cats[i][k] THEN 1 ELSE 0]])]

\* ------------------------------------------------------------ constructor
\* (mutant of ResolvePrefix: a string prefix is kept as a one-entry list)
ResolvePrefix_Single(cols, p) ==
    IF p.kind = "None" THEN cols
    ELSE IF p.kind = "str" THEN <<p.str>>
    ELSE p.list

ResolvePrefix(cols, p) ==
    IF p.kind = "None" THEN cols
    ELSE IF p.kind = "str" THEN [i \in 1..Len(cols) |-> p.str]
    ELSE p.list

PrefixMismatch(cols, p) == p.kind = "list" /\ Len(p.list) # Len(cols)

init(cols, p, sep, drop) ==
    /\ inst = "none"
    /\ IF PrefixMismatch(cols, p)
       THEN /\ inst' = "failed"
            /\ call' = [op |-> "init", x |-> NoFrame, cols |-> cols, p |-> p,
                        result |-> "ConfigurationError", out |-> NoOut]
            /\ UNCHANGED <<columns, prefix, prefix_sep, drop_first>>
       ELSE /\ inst' = "live"
            /\ prefix' = ResolvePrefix(cols, p)
            /\ prefix_sep' = sep
            /\ columns' = cols
            /\ drop_first' = drop
            /\ call' = [op |-> "init", x |-> NoFrame, cols |-> cols, p |-> p,
                        result |-> "ok", out |-> NoOut]
    /\ UNCHANGED <<fitted, categories_, refitted>>

\* -------------------------------------------------------------------- fit
\* (mutant of FitCheck: all the columns are looked up before any is counted)
RECURSIVE FitCheck_LookupFirst(_, _)
FitCheck_LookupFirst(x, cols) ==
    IF \E i \in 1..Len(cols) : ~HasColumn(x, cols[i]) THEN "SchemaError"
    ELSE IF cols = <<>> THEN "ok"
    ELSE IF nunique(x, Head(cols)) < 2 THEN "DegenerateColumnError"
    ELSE FitCheck_LookupFirst(x, Tail(cols))

\* the validation loop of fit: the error of the first configured column that
\* fails a check, "ok" if none does
RECURSIVE FitCheck(_, _)
FitCheck(x, cols) ==
    IF cols = <<>> THEN "ok"
    ELSE IF ~HasColumn(x, Head(cols)) THEN "SchemaError"
    ELSE IF nunique(x, Head(cols)) < 2 THEN "DegenerateColumnError"
    ELSE FitCheck(x, Tail(cols))

NoArgs == [kind |-> "None", str |-> "", list |-> <<>>]

Called(op, x, result, out) ==
    [op |-> op, x |-> x, cols |-> <<>>, p |-> NoArgs, result |-> result, out |-> out]

\* (mutant of fit: the encoder is fitted before the columns are counted)
fit_EncoderFirst(x) ==
    /\ inst = "live"
    /\ LET res == FitCheck(x, columns) IN
       IF res = "SchemaError"
       THEN /\ call' = Called("fit", x, res, NoOut)
            /\ UNCHANGED <<fitted, categories_, refitted>>
       ELSE /\ categories_' = EncoderFit(x, columns)
            /\ fitted' = TRUE
            /\ refitted' = (refitted \/ fitted)
            /\ call' = Called("fit", x, res, NoOut)
    /\ UNCHANGED <<inst, columns, prefix, prefix_sep, drop_first>>

fit(x) ==
    /\ inst = "live"
    /\ LET res == FitCheck(x, columns) IN
       IF res = "ok"
       THEN /\ categories_' = EncoderFit(x, columns)
            /\ fitted' = TRUE
            /\ refitted' = (refitted \/ fitted)
            /\ call' = Called("fit", x, "ok", NoOut)
       ELSE /\ call' = Called("fit", x, res, NoOut)
            /\ UNCHANGED <<fitted, categories_, refitted>>
    /\ UNCHANGED <<inst, columns, prefix, prefix_sep, drop_first>>

\* -------------------------------------------------------------- transform
TransformCheck(x, cols) ==
    IF \E i \in 1..Len(cols) : ~HasColumn(x, cols[i]) THEN "SchemaError" ELSE "ok"

\* level_names of the i-th configured column
LevelNames(i) ==
    [k \in 1..Len(categories_[i]) |-> prefix[i] \o prefix_sep \o categories_[i][k]]

TransformedColNames == Flatten([i \in 1..Len(columns) |-> LevelNames(i)])

\* (mutant of ColumnsToDrop: the last level of each column is dropped)
ColumnsToDrop_Last ==
    IF drop_first
    THEN { LevelNames(i)[Len(LevelNames(i))] : i \in 1..Len(columns) }
    ELSE {}

ColumnsToDrop ==
    IF drop_first THEN { LevelNames(i)[1] : i \in 1..Len(columns) } ELSE {}

\* the input frame as transform's result carries it
Input(x) ==
    [columns |-> x.columns,
     rows |-> [r \in 1..Len(x.rows) |->
                  [p \in 1..Len(x.columns) |-> Object(x.rows[r][p])]],
     origin |-> [p \in 1..Len(x.columns) |-> 0]]

\* pd.DataFrame(transformed_array, index=x.index,
\*              columns=transformed_col_names, dtype=np.int8)
Transformed(x) ==
    LET array == EncoderTransform(categories_, x, columns)
        names == TransformedColNames
    IN [columns |-> names,
        rows |-> [r \in 1..Len(array) |->
                     [j \in 1..Len(names) |-> Int8(array[r][j])]],
        origin |-> [j \in 1..Len(names) |-> j]]

TransformOut(x) ==
    Concat(DropColumns(Input(x), Range(columns)),
           DropColumns(Transformed(x), ColumnsToDrop))

\* (mutant of transform: an encoder that was never fitted encodes nothing)
transform_Unchecked(x) ==
    /\ inst = "live"
    /\ LET res == TransformCheck(x, columns) IN
       IF res # "ok" THEN call' = Called("transform", x, res, NoOut)
       ELSE IF ~fitted
            THEN call' = Called("transform", x, "ok",
                                DropColumns(Input(x), Range(columns)))
       ELSE call' = Called("transform", x, "ok", TransformOut(x))
    /\ UNCHANGED <<inst, columns, prefix, prefix_sep, drop_first,
                   fitted, categories_, refitted>>

transform(x) ==
    /\ inst = "live"
    /\ LET res == TransformCheck(x, columns) IN
       IF res # "ok" THEN call' = Called("transform", x, res, NoOut)
       ELSE IF ~fitted THEN call' = Called("transform", x, "NotFittedError", NoOut)
       ELSE call' = Called("transform", x, "ok", TransformOut(x))
    /\ UNCHANGED <<inst, columns, prefix, prefix_sep, drop_first,
                   fitted, categories_, refitted>>

\* ---------------------------------------------------------- specification
Init ==
    /\ inst = "none"
    /\ columns = <<>>
    /\ prefix = <<>>
    /\ prefix_sep = ""
    /\ drop_first = FALSE
    /\ fitted = FALSE
    /\ categories_ = <<>>
    /\ refitted = FALSE
    /\ call = Called("none", NoFrame, "ok", NoOut)

Construct ==
    \E cols \in ColumnsArgs, p \in PrefixArgs, sep \in SepArgs, drop \in BOOLEAN :
        init(cols, p, sep, drop)

Fit == \E x \in FitFrames : fit(x)

Transform == \E x \in Frames : transform(x)

Next == Construct \/ Fit \/ Transform

Spec == Init /\ [][Next]_vars

\* ------------------------------------------------- vocabulary of the claims
FitCalled == call.op = "fit"
TransformCalled == call.op = "transform"
TransformOk == call.op = "transform" /\ call.result = "ok"
FitOk == call.op = "fit" /\ call.result = "ok"

Configured == 1..Len(columns)

\* the i-th configured column is a column of the call's frame
Present(i) == \E p \in 1..Len(call.x.columns) : call.x.columns[p] = columns[i]
Missing == \E i \in Configured : ~Present(i)

\* the cell of row r of the call's frame in the i-th configured column
Cell(r, i) ==
    LET p == CHOOSE q \in 1..Len(call.x.columns) : call.x.columns[q] = columns[i]
    IN call.x.rows[r][p]

Rows == 1..Len(call.x.rows)
Seen(i) == { Cell(r, i) : r \in Rows }

\* the i-th configured column's fitted categories, their number, and the
\* places of its expansion columns in the encoder's array
Cats(i) == { categories_[i][k] : k \in 1..Len(categories_[i]) }
K(i) == Len(categories_[i])
Offset(i) == Cardinality(UNION { { <<j, k>> : k \in 1..K(j) } : j \in 1..(i - 1) })
Origins(i) == (Offset(i) + 1)..(Offset(i) + K(i))
Total == Offset(Len(columns) + 1)
ColOf(j) == CHOOSE i \in Configured : j \in Origins(i)
CatOf(j) == j - Offset(ColOf(j))

\* the places in transform's result of the expansion columns of the i-th
\* configured column, and of the columns taken from the input
OutCols == 1..Len(call.out.columns)
OutPos(i) == { p \in OutCols : call.out.origin[p] \in Origins(i) }
Dropped == IF drop_first THEN 1 ELSE 0

\* C1: after a successful transform every configured column with k fitted
\* categories has exactly k expansion columns in the result (drop_first
\* false) or exactly k-1 (drop_first true), the one omitted being that of its
\* first fitted category.
C1_ColumnCount ==
    TransformOk =>
        \A i \in Configured :
            /\ Cardinality(OutPos(i)) = K(i) - Dropped
            /\ { call.out.origin[p] : p \in OutPos(i) }
                 = (IF drop_first THEN Origins(i) \ {Offset(i) + 1} ELSE Origins(i))

\* C2: a fit or transform on a frame that lacks a configured column ends in
\* SchemaError.
C2_MissingIsSchemaError ==
    (inst = "live" /\ (FitCalled \/ TransformCalled) /\ Missing)
        => call.result = "SchemaError"

\* the first configured column the call's frame lacks
FirstMissing == CHOOSE i \in Configured :
                    ~Present(i) /\ \A j \in 1..(i - 1) : Present(j)

\* C2 (amended): on a frame that lacks a configured column transform ends in
\* SchemaError; fit ends in DegenerateColumnError if a configured column
\* before the first missing one has fewer than 2 distinct values, and in
\* SchemaError otherwise.
C2_MissingFails ==
    (inst = "live" /\ (FitCalled \/ TransformCalled) /\ Missing) =>
        /\ TransformCalled => call.result = "SchemaError"
        /\ FitCalled =>
             call.result =
               (IF \E j \in 1..(FirstMissing - 1) : Cardinality(Seen(j)) < 2
                THEN "DegenerateColumnError" ELSE "SchemaError")

C2_Witness ==
    /\ FitCalled /\ Missing /\ fitted
    /\ call.result = "DegenerateColumnError"

\* C3: when every configured column is in the frame, fit succeeds, leaving
\* the instance fitted, iff each configured column has at least 2 distinct
\* values there, and ends in DegenerateColumnError otherwise.
C3_FitOutcome ==
    (inst = "live" /\ FitCalled /\ ~Missing) =>
        /\ call.result = "ok" <=> \A i \in Configured : Cardinality(Seen(i)) >= 2
        /\ call.result = "ok" => fitted
        /\ call.result # "ok" => call.result = "DegenerateColumnError"

C3_Witness ==
    /\ FitOk /\ ~Missing
    /\ \E i \in Configured : Cardinality(Seen(i)) = 2
    /\ Len(columns) = 2

\* C4: a step that ends a fit in an error changes neither whether the
\* instance is fitted nor any column's fitted categories.
C4_FailedFitKeepsState ==
    [][(call'.op = "fit" /\ call'.result # "ok")
          => (fitted' = fitted /\ categories_' = categories_)]_vars

C4_Witness ==
    /\ FitCalled /\ call.result = "DegenerateColumnError" /\ fitted
    /\ ~Missing /\ Len(call.x.rows) > 0
    /\ K(Len(columns)) = Len(ValueOrder)

\* C5: the instance is unfitted from construction on, becomes fitted only by
\* a fit that succeeds and then stays fitted; a transform on an unfitted
\* instance ends in an error and returns no frame.
C5_Lifecycle ==
    /\ []((call.op = "init" /\ inst = "live") => ~fitted)
    /\ []((TransformCalled /\ ~fitted) => (call.result # "ok" /\ call.out = NoOut))
    /\ [][/\ fitted => fitted'
          /\ (~fitted /\ fitted') => (call'.op = "fit" /\ call'.result = "ok")
          /\ (call'.op = "fit" /\ call'.result = "ok") => fitted']_vars

C5_Witness ==
    /\ TransformCalled /\ ~fitted /\ ~Missing
    /\ call.result = "NotFittedError"
    /\ Len(call.x.rows) > 0

\* the frame's columns that are not configured, in the frame's order
Untouched == SelectSeq(call.x.columns, LAMBDA c : \A i \in Configured : columns[i] # c)

\* C6: a successful transform returns the frame's non-configured columns,
\* unchanged and in the frame's order, followed by the expansion columns it
\* keeps, in the order of the configured columns and of each one's fitted
\* categories, each named prefix[i] + prefix_sep + category; with drop_first
\* false it keeps all of them.
C6_ColumnSequence ==
    TransformOk =>
        LET n == Len(Untouched) IN
        /\ Len(call.out.columns) >= n
        /\ \A p \in 1..n :
             /\ call.out.columns[p] = Untouched[p]
             /\ call.out.origin[p] = 0
             /\ \A r \in Rows :
                  \E q \in 1..Len(call.x.columns) :
                     /\ call.x.columns[q] = Untouched[p]
                     /\ call.out.rows[r][p] = Object(call.x.rows[r][q])
        /\ \A p \in (n + 1)..Len(call.out.columns) :
             LET j == call.out.origin[p] IN
             /\ j \in 1..Total
             /\ p > n + 1 => call.out.origin[p - 1] < j
             /\ call.out.columns[p] =
                  prefix[ColOf(j)] \o prefix_sep \o categories_[ColOf(j)][CatOf(j)]
        /\ ~drop_first => Len(call.out.columns) = n + Total

C6_Witness ==
    /\ TransformOk
    /\ Len(Untouched) = 2
    /\ Len(call.out.columns) = 5
    /\ Len(call.x.rows) = 2

\* C7: a successful transform returns one row per input row, in order, and
\* the cell of row r in a kept expansion column of category v of column c
\* is 1 if row r has v in c and 0 otherwise; a value not seen by fit gives 0
\* in all of c's expansion columns, and with drop_first false a value seen
\* by fit gives exactly one 1 among them.
C7_Cells ==
    TransformOk =>
        /\ Len(call.out.rows) = Len(call.x.rows)
        /\ \A r \in Rows : \A p \in OutCols :
             LET j == call.out.origin[p] IN
             j > 0 => call.out.rows[r][p] =
                        Int8(IF Cell(r, ColOf(j)) = categories_[ColOf(j)][CatOf(j)]
                             THEN 1 ELSE 0)
        /\ \A r \in Rows : \A i \in Configured :
             /\ Cell(r, i) \notin Cats(i) =>
                  \A p \in OutPos(i) : call.out.rows[r][p] = Int8(0)
             /\ (~drop_first /\ Cell(r, i) \in Cats(i)) =>
                  Cardinality({ p \in OutPos(i) : call.out.rows[r][p] = Int8(1) }) = 1

C7_Witness ==
    /\ TransformOk /\ Len(call.x.rows) = 2
    /\ \E i \in Configured :
         /\ Cell(1, i) \notin Cats(i)
         /\ Cell(2, i) \in Cats(i)
         /\ OutPos(i) # {}

\* the configuration of the instance
config == <<columns, prefix, prefix_sep, drop_first>>

\* C8: the fitted categories are those of the frame of the latest successful
\* fit, each column's being exactly the values the frame has there, in
\* sorted order; no other call changes them; a transform changes neither
\* them nor the configuration, and two transforms of one frame in a row
\* return the same.
C8_Vocabulary ==
    [][/\ (call'.op = "fit" /\ call'.result = "ok") =>
             \A i \in 1..Len(columns') :
                /\ { categories_'[i][k] : k \in 1..Len(categories_'[i]) }
                     = { call'.x.rows[r][CHOOSE q \in 1..Len(call'.x.columns) :
                                            call'.x.columns[q] = columns'[i]] :
                           r \in 1..Len(call'.x.rows) }
                /\ \A k \in 1..(Len(categories_'[i]) - 1) :
                     \E a, b \in 1..Len(ValueOrder) :
                        /\ a < b
                        /\ ValueOrder[a] = categories_'[i][k]
                        /\ ValueOrder[b] = categories_'[i][k + 1]
       /\ (categories_' # categories_ \/ fitted' # fitted) =>
             (call'.op = "fit" /\ call'.result = "ok")
       /\ call'.op = "transform" =>
             (config' = config /\ categories_' = categories_ /\ fitted' = fitted)
       /\ (call.op = "transform" /\ call'.op = "transform" /\ call'.x = call.x) =>
             (call'.result = call.result /\ call'.out = call.out)]_vars

C8_Witness ==
    /\ TransformOk /\ refitted
    /\ Len(columns) = 2 /\ K(2) = 2
    /\ Len(call.x.rows) > 0

\* C9: construction resolves one prefix per configured column: the column's
\* own name when prefix is absent, the string when it is a string, the list's
\* entry when it is a list of the right length; a list of another length
\* ends construction in ConfigurationError, with no instance.
C9_Prefix ==
    /\ inst = "live" => Len(prefix) = Len(columns)
    /\ call.op = "init" =>
         LET mismatch == call.p.kind = "list" /\ Len(call.p.list) # Len(call.cols) IN
         /\ mismatch <=> call.result = "ConfigurationError"
         /\ mismatch <=> inst = "failed"
         /\ ~mismatch =>
              /\ inst = "live" /\ call.result = "ok" /\ columns = call.cols
              /\ \A i \in 1..Len(call.cols) :
                   prefix[i] = (IF call.p.kind = "None" THEN call.cols[i]
                                ELSE IF call.p.kind = "str" THEN call.p.str
                                ELSE call.p.list[i])

C9_Witness ==
    /\ call.op = "init" /\ inst = "live"
    /\ call.p.kind = "str" /\ Len(columns) = 2

\* C10: with drop_first true, a row with a column's first fitted category and
\* a row with a value fit never saw both get 0 in all the expansion columns
\* kept for that column; with drop_first false a row has 0 in all of a
\* column's expansion columns iff fit never saw its value.
C10_Baseline ==
    TransformOk =>
        \A r \in Rows : \A i \in Configured :
            LET zeros == \A p \in OutPos(i) : call.out.rows[r][p] = Int8(0) IN
            /\ drop_first =>
                 ((Cell(r, i) = categories_[i][1] \/ Cell(r, i) \notin Cats(i)) => zeros)
            /\ ~drop_first => (zeros <=> Cell(r, i) \notin Cats(i))

C10_Witness ==
    /\ TransformOk /\ drop_first /\ Len(call.x.rows) = 2
    /\ \E i \in Configured :
         /\ Cell(1, i) = categories_[i][1]
         /\ Cell(2, i) \notin Cats(i)
         /\ OutPos(i) # {}

====
